---- MODULE Spec2Model ----
(***************************************************************************)
(* A model of rbf-rs (src/lib.rs): RingBuffer<T, SIZE>, its two insertion  *)
(* policies, pop / peek / pop_many, the consuming and the borrowing        *)
(* iterator and the embedded_io::Read adapter.                             *)
(*                                                                         *)
(* The buffer's fields are the variables data, oldest and num_elems.  The  *)
(* methods are operators over a record self = [data, oldest, num_elems]    *)
(* that return [self, ret, panic]: the buffer after the call, the value    *)
(* returned, and whether the call panicked (an index out of bounds, an     *)
(* unwrap of None, a usize overflow or underflow, a remainder by zero).    *)
(* Each action applies one method to the current buffer and records the    *)
(* call (op, arg, ret, buf) so that properties can speak about it.         *)
(*                                                                         *)
(* Spec is the crate for every SIZE >= 1, SpecAnySize the same with SIZE   *)
(* = 0 admitted, and SpecPair a buffer read by two borrowing iterators at  *)
(* a time.                                                                 *)
(***************************************************************************)
EXTENDS Integers, Sequences, FiniteSets

\* ------------------------------------------------------------ bounds
\* An array of elements of non-zero size has SIZE in 1..MaxSize.
MaxSize == 3
\* Element values of such a type are 0..MaxVal.
MaxVal == 1
\* Destination slices of pop_many / read have length 0..MaxBuf.
MaxBuf == 2

\* usize::MAX.  Rust bounds every object by isize::MAX bytes, so an array of
\* elements of non-zero size has at most isize::MAX = (usize::MAX - 1) / 2
\* slots, while an array of zero-sized elements may have up to usize::MAX.
\* The machine word is scaled down so that isize::MAX is MaxSize.
UsizeMax == 2 * MaxSize + 1

\* the values of an element type of non-zero size
Elems == 0..MaxVal
\* T::default()
Default == 0
\* the values of a zero-sized element type such as ()
Zst == {Default}

VARIABLES
    T,          \* the type parameter T, as the set of its values
    SIZE,       \* the const generic SIZE
    overflow_checks,
                \* the build: with overflow checks (the dev profile) a usize
                \* overflow panics, without them (release) it wraps
    data,       \* RingBuffer.data: [0..SIZE-1 -> T]
    oldest,     \* RingBuffer.oldest
    num_elems,  \* RingBuffer.num_elems
    mode,       \* who holds the buffer: "owned" (the caller, exclusively),
                \* "borrowed" (an IntoIteratorRingbuffer holds &buffer),
                \* "shared" (two of them hold &buffer),
                \* "consumed" (a ConsumingIntoIteratorRingbuffer owns it)
    current,    \* IntoIteratorRingbuffer.current (0 while no such iterator lives)
    op,         \* the last call's name
    arg,        \* the last call's argument
    ret,        \* the last call's return value, NoReturn if it panicked
    buf,        \* the destination slice after the last pop_many / read, until
                \* the next call on a buffer
    panicked,   \* some call panicked
    yielded,    \* history: what the live iterator has yielded so far
    snap,       \* history: the buffer as it was when the live iterator was made
    phase,      \* history: "fill" | "drain" | "off", a run of accepted
                \* insertions into an empty buffer followed by pops
    ins,        \* history: the values inserted in the run
    outs,       \* history: the values popped in the run
    fifo,       \* history: an abstract bounded FIFO stepped beside the buffer
    current2,   \* a second IntoIteratorRingbuffer's current, made by iter()
                \* while the first iterator lives (0 while there is none)
    yielded2    \* history: what the second iterator has yielded so far

build == <<T, SIZE, overflow_checks>>

\* the second borrowing iterator
second == <<current2, yielded2>>

vars == <<T, SIZE, overflow_checks, data, oldest, num_elems, mode, current,
          op, arg, ret, buf, panicked, yielded, snap, phase, ins, outs,
          fifo, current2, yielded2>>

\* ------------------------------------------------------------ values
\* Option<T>
None == [tag |-> "None"]
Some(x) == [tag |-> "Some", val |-> x]
\* Result<(), Error> and Result<usize, Error>
OkUnit == [tag |-> "Ok"]
Ok(n) == [tag |-> "Ok", val |-> n]
Err(e) == [tag |-> "Err", err |-> e]
\* a plain usize
Usize(n) == [tag |-> "usize", val |-> n]
\* no argument, no value
NoArg == [tag |-> "none"]
Unit == [tag |-> "unit"]
\* no live iterator
NoSnap == [tag |-> "none"]
\* the call panicked: it returned nothing
NoReturn == [tag |-> "panic"]

Min(a, b) == IF a <= b THEN a ELSE b

\* The buffer as a record.
Self == [data |-> data, oldest |-> oldest, num_elems |-> num_elems]

\* ------------------------------------------------------------ usize arithmetic
\* a + b: the sum modulo 2^w; with overflow checks an overflow panics.
Add(a, b) == (a + b) % (UsizeMax + 1)
AddPanics(a, b) == overflow_checks /\ a + b > UsizeMax
\* a - b, likewise.
Sub(a, b) == (a - b) % (UsizeMax + 1)
SubPanics(a, b) == overflow_checks /\ a < b
\* a % n: n = 0 panics.
Rem(a, n) == IF n = 0 THEN 0 ELSE a % n
\* self.data[i]: an index outside the array panics.
InBounds(self, i) == i \in DOMAIN self.data
At(self, i) == IF InBounds(self, i) THEN self.data[i] ELSE Default
Store(self, i, elem) ==
    IF InBounds(self, i) THEN [self.data EXCEPT ![i] = elem] ELSE self.data

\* ------------------------------------------------------------ RingBuffer
\* mutant: a new buffer counts every slot as an element
new_full(size) ==
    [data |-> [i \in 0..(size - 1) |-> Default], oldest |-> 0, num_elems |-> size]

\* RingBuffer::default / RingBuffer::new for a given SIZE
new(size) ==
    [data |-> [i \in 0..(size - 1) |-> Default], oldest |-> 0, num_elems |-> 0]

len(self) == self.num_elems

is_empty(self) == len(self) = 0

is_full(self) == len(self) = SIZE

\* mutant: on a full buffer the element goes to the slot after the evicted one
push_overwrite_write_next(self, elem) ==
    LET index == Rem(Add(self.oldest, self.num_elems), SIZE)
        next == Rem(Add(self.oldest, 1), SIZE)
    IN  IF AddPanics(self.oldest, self.num_elems) \/ SIZE = 0
        THEN [self |-> self, ret |-> NoReturn, panic |-> TRUE]
        ELSE IF is_full(self)
        THEN [self |-> [data |-> Store(self, next, elem),
                        oldest |-> next,
                        num_elems |-> self.num_elems],
              ret |-> Some(At(self, self.oldest)),
              panic |-> FALSE]
        ELSE [self |-> [data |-> Store(self, index, elem),
                        oldest |-> self.oldest,
                        num_elems |-> Add(self.num_elems, 1)],
              ret |-> None,
              panic |-> FALSE]

push_overwrite(self, elem) ==
    LET index == Rem(Add(self.oldest, self.num_elems), SIZE)
        next == Rem(Add(self.oldest, 1), SIZE)
    IN  IF AddPanics(self.oldest, self.num_elems) \/ SIZE = 0
        THEN [self |-> self, ret |-> NoReturn, panic |-> TRUE]
        ELSE IF is_full(self)
        THEN [self |-> [data |-> Store(self, index, elem),
                        oldest |-> next,
                        num_elems |-> self.num_elems],
              ret |-> Some(At(self, self.oldest)),
              panic |-> \/ ~InBounds(self, self.oldest)
                        \/ AddPanics(self.oldest, 1)
                        \/ ~InBounds(self, index)]
        ELSE [self |-> [data |-> Store(self, index, elem),
                        oldest |-> self.oldest,
                        num_elems |-> Add(self.num_elems, 1)],
              ret |-> None,
              panic |-> \/ ~InBounds(self, index)
                        \/ AddPanics(self.num_elems, 1)]

\* mutant: no is_full check
push_unless_full_unchecked(self, elem) ==
    LET index == Rem(Add(self.oldest, self.num_elems), SIZE)
    IN  IF AddPanics(self.oldest, self.num_elems)
        THEN [self |-> self, ret |-> NoReturn, panic |-> TRUE]
        ELSE [self |-> [data |-> Store(self, index, elem),
                        oldest |-> self.oldest,
                        num_elems |-> Add(self.num_elems, 1)],
              ret |-> OkUnit,
              panic |-> FALSE]

\* mutant: the slot is written before the is_full check
push_unless_full_write_first(self, elem) ==
    LET index == Rem(Add(self.oldest, self.num_elems), SIZE)
        written == [self EXCEPT !.data = Store(self, index, elem)]
    IN  IF AddPanics(self.oldest, self.num_elems)
        THEN [self |-> self, ret |-> NoReturn, panic |-> TRUE]
        ELSE IF is_full(self)
        THEN [self |-> written, ret |-> Err("BufferFull"), panic |-> FALSE]
        ELSE [self |-> [written EXCEPT !.num_elems = Add(self.num_elems, 1)],
              ret |-> OkUnit,
              panic |-> FALSE]

push_unless_full(self, elem) ==
    LET index == Rem(Add(self.oldest, self.num_elems), SIZE)
    IN  IF is_full(self)
        THEN [self |-> self, ret |-> Err("BufferFull"), panic |-> FALSE]
        ELSE IF AddPanics(self.oldest, self.num_elems) \/ SIZE = 0
        THEN [self |-> self, ret |-> NoReturn, panic |-> TRUE]
        ELSE [self |-> [data |-> Store(self, index, elem),
                        oldest |-> self.oldest,
                        num_elems |-> Add(self.num_elems, 1)],
              ret |-> OkUnit,
              panic |-> \/ ~InBounds(self, index)
                        \/ AddPanics(self.num_elems, 1)]

\* mutant: a pop empties the buffer
pop_clear(self) ==
    IF is_empty(self)
    THEN [self |-> self, ret |-> None, panic |-> FALSE]
    ELSE [self |-> [data |-> self.data,
                    oldest |-> Rem(Add(self.oldest, self.num_elems), SIZE),
                    num_elems |-> 0],
          ret |-> Some(At(self, self.oldest)),
          panic |-> FALSE]

\* mutant: the newest element is removed instead of the oldest
pop_newest(self) ==
    IF is_empty(self)
    THEN [self |-> self, ret |-> None, panic |-> FALSE]
    ELSE [self |-> [self EXCEPT !.num_elems = Sub(self.num_elems, 1)],
          ret |-> Some(At(self, Rem(self.oldest + self.num_elems - 1, SIZE))),
          panic |-> FALSE]

pop(self) ==
    IF is_empty(self)
    THEN [self |-> self, ret |-> None, panic |-> FALSE]
    ELSE [self |-> [data |-> self.data,
                    oldest |-> Rem(Add(self.oldest, 1), SIZE),
                    num_elems |-> Sub(self.num_elems, 1)],
          ret |-> Some(At(self, self.oldest)),
          panic |-> \/ ~InBounds(self, self.oldest)
                    \/ AddPanics(self.oldest, 1)
                    \/ SIZE = 0
                    \/ SubPanics(self.num_elems, 1)]

\* mutant: peek looks at the newest element
peek_newest(self) ==
    IF is_empty(self)
    THEN [self |-> self, ret |-> None, panic |-> FALSE]
    ELSE [self |-> self,
          ret |-> Some(At(self, Rem(self.oldest + self.num_elems - 1, SIZE))),
          panic |-> FALSE]

\* mutant: no is_empty check
peek_unchecked(self) ==
    [self |-> self,
     ret |-> Some(At(self, self.oldest)),
     panic |-> ~InBounds(self, self.oldest)]

peek(self) ==
    IF is_empty(self)
    THEN [self |-> self, ret |-> None, panic |-> FALSE]
    ELSE [self |-> self,
          ret |-> Some(At(self, self.oldest)),
          panic |-> ~InBounds(self, self.oldest)]

\* The loop of pop_many over buf.iter_mut().take(count): slots i..count of
\* dst (no further than its end), in order, each set to self.pop().unwrap();
\* an unwrap of None panics and ends the loop.
RECURSIVE pop_many_loop(_, _, _, _)
pop_many_loop(self, dst, i, count) ==
    IF i > count \/ i > Len(dst)
    THEN [self |-> self, buf |-> dst, panic |-> FALSE]
    ELSE LET r == pop(self)
         IN  IF r.panic \/ r.ret = None
             THEN [self |-> r.self, buf |-> dst, panic |-> TRUE]
             ELSE pop_many_loop(r.self, [dst EXCEPT ![i] = r.ret.val], i + 1, count)

\* mutant: count is buf.len(), without the min
pop_many_no_min(self, dst) ==
    LET count == Len(dst)
        r == pop_many_loop(self, dst, 1, count)
    IN  [self |-> r.self, buf |-> r.buf, ret |-> Usize(count), panic |-> r.panic]

pop_many(self, dst) ==
    LET count == Min(len(self), Len(dst))
        r == pop_many_loop(self, dst, 1, count)
    IN  [self |-> r.self, buf |-> r.buf, ret |-> Usize(count), panic |-> r.panic]

\* ------------------------------------------------------------ iterators
\* mutant: next peeks instead of popping
consuming_next_peek(self) == peek(self)

\* ConsumingIntoIteratorRingbuffer::next
consuming_next(self) == pop(self)

\* mutant: the cursor is not advanced
iter_next_no_advance(self, cur) ==
    IF cur < self.num_elems
    THEN [current |-> cur,
          ret |-> Some(At(self, Rem(Add(self.oldest, cur), SIZE))),
          panic |-> FALSE]
    ELSE [current |-> cur, ret |-> None, panic |-> FALSE]

\* mutant: the index ignores buffer.oldest
iter_next_no_offset(self, cur) ==
    IF cur < self.num_elems
    THEN [current |-> Add(cur, 1),
          ret |-> Some(At(self, Rem(cur, SIZE))),
          panic |-> FALSE]
    ELSE [current |-> cur, ret |-> None, panic |-> FALSE]

\* IntoIteratorRingbuffer::next, on an iterator [buffer, current]
iter_next(self, cur) ==
    IF cur < self.num_elems
    THEN LET index == Rem(Add(self.oldest, cur), SIZE)
         IN  IF AddPanics(self.oldest, cur) \/ SIZE = 0
             THEN [current |-> cur, ret |-> NoReturn, panic |-> TRUE]
             ELSE [current |-> Add(cur, 1),
                   ret |-> Some(At(self, index)),
                   panic |-> ~InBounds(self, index) \/ AddPanics(cur, 1)]
    ELSE [current |-> cur, ret |-> None, panic |-> FALSE]

\* mutant: iter() starts one element in
iter_skip_first(self) == 1

\* <&RingBuffer as IntoIterator>::into_iter: the cursor of a new iterator
into_iter_ref(self) == 0

\* RingBuffer::iter
iter(self) == into_iter_ref(self)

\* ------------------------------------------------------------ embedded_io
\* mutant: reading nothing is reported as an error
read_err_on_empty(self, dst) ==
    LET r == pop_many(self, dst)
    IN  [self |-> r.self, buf |-> r.buf,
         ret |-> IF r.ret.val = 0 THEN Err("BufferFull") ELSE Ok(r.ret.val),
         panic |-> r.panic]

\* <RingBuffer<u8, SIZE> as embedded_io::Read>::read
read(self, dst) ==
    LET r == pop_many(self, dst)
    IN  [self |-> r.self, buf |-> r.buf, ret |-> Ok(r.ret.val), panic |-> r.panic]

\* ------------------------------------------------------------ history
\* The run of accepted insertions into an empty buffer, then pops.
Run == [phase |-> phase, ins |-> ins, outs |-> outs]
RunOff == [phase |-> "off", ins |-> <<>>, outs |-> <<>>]

\* after a push of elem that returned r on a buffer that held n elements
RunAfterPush(n, elem, r) ==
    IF r \in {None, OkUnit}
    THEN IF n = 0 THEN [phase |-> "fill", ins |-> <<elem>>, outs |-> <<>>]
         ELSE IF phase = "fill" THEN [Run EXCEPT !.ins = Append(ins, elem)]
         ELSE RunOff
    ELSE IF r.tag = "Some" THEN RunOff ELSE Run

\* after a pop that returned r
RunAfterPop(r) ==
    IF r.tag = "Some"
    THEN IF phase \in {"fill", "drain"}
         THEN [phase |-> "drain", ins |-> ins, outs |-> Append(outs, r.val)]
         ELSE RunOff
    ELSE Run

SetRun(run) == phase' = run.phase /\ ins' = run.ins /\ outs' = run.outs

SetSelf(self) ==
    data' = self.data /\ oldest' = self.oldest /\ num_elems' = self.num_elems

Called(name, a, r) == op' = name /\ arg' = a /\ ret' = r

\* what the caller gets from a call whose result is r
Returned(r) == IF r.panic THEN NoReturn ELSE r.ret

\* The abstract bounded FIFO: a sequence of at most SIZE elements, oldest
\* first.  A push appends while there is room; an overwriting push into a
\* full FIFO drops the head first; a rejected push changes nothing; a pop
\* removes the head; a bulk drain into n slots removes the first min(len, n).
FifoPushOverwrite(f, elem) ==
    IF Len(f) < SIZE THEN Append(f, elem)
    ELSE IF f = <<>> THEN f
    ELSE Append(Tail(f), elem)
FifoPushUnlessFull(f, elem) == IF Len(f) < SIZE THEN Append(f, elem) ELSE f
FifoPop(f) == IF f = <<>> THEN f ELSE Tail(f)
FifoPopMany(f, n) == SubSeq(f, Min(Len(f), n) + 1, Len(f))

\* the destination slices: length 0..MaxBuf, every slot holding the same
\* element c, for every c (so some slice differs from any value written)
Dests == {[i \in 1..n |-> c] : n \in 0..MaxBuf, c \in T}

\* ------------------------------------------------------------ the program
Init ==
    /\ T \in {Elems, Zst}
    /\ SIZE \in 1..(IF T = Zst THEN UsizeMax ELSE MaxSize)
    /\ overflow_checks \in BOOLEAN
    /\ data = new(SIZE).data
    /\ oldest = new(SIZE).oldest
    /\ num_elems = new(SIZE).num_elems
    /\ mode = "owned"
    /\ current = 0
    /\ op = "new" /\ arg = NoArg /\ ret = Unit
    /\ buf = <<>>
    /\ panicked = FALSE
    /\ yielded = <<>> /\ snap = NoSnap
    /\ phase = "fill" /\ ins = <<>> /\ outs = <<>>
    /\ fifo = <<>>
    /\ current2 = 0 /\ yielded2 = <<>>

\* let buffer = RingBuffer::new(); the previous buffer (or its consuming
\* iterator) is dropped; a destination slice the caller holds stays as it is
New ==
    /\ ~panicked /\ mode \in {"owned", "consumed"}
    /\ SetSelf(new(SIZE))
    /\ mode' = "owned"
    /\ Called("new", NoArg, Unit)
    /\ yielded' = <<>> /\ snap' = NoSnap
    /\ SetRun([phase |-> "fill", ins |-> <<>>, outs |-> <<>>])
    /\ fifo' = <<>>
    /\ UNCHANGED <<second, build, current, panicked, buf>>

PushOverwrite ==
    /\ ~panicked /\ mode = "owned"
    /\ \E elem \in T :
        LET r == push_overwrite(Self, elem)
        IN  /\ SetSelf(r.self)
            /\ panicked' = r.panic
            /\ Called("push_overwrite", elem, Returned(r))
            /\ fifo' = FifoPushOverwrite(fifo, elem)
            /\ SetRun(RunAfterPush(num_elems, elem, Returned(r)))
    /\ buf' = <<>>
    /\ UNCHANGED <<second, build, mode, current, yielded, snap>>

PushUnlessFull ==
    /\ ~panicked /\ mode = "owned"
    /\ \E elem \in T :
        LET r == push_unless_full(Self, elem)
        IN  /\ SetSelf(r.self)
            /\ panicked' = r.panic
            /\ Called("push_unless_full", elem, Returned(r))
            /\ fifo' = FifoPushUnlessFull(fifo, elem)
            /\ SetRun(RunAfterPush(num_elems, elem, Returned(r)))
    /\ buf' = <<>>
    /\ UNCHANGED <<second, build, mode, current, yielded, snap>>

Pop ==
    /\ ~panicked /\ mode = "owned"
    /\ LET r == pop(Self)
       IN  /\ SetSelf(r.self)
           /\ panicked' = r.panic
           /\ Called("pop", NoArg, Returned(r))
           /\ fifo' = FifoPop(fifo)
           /\ SetRun(RunAfterPop(Returned(r)))
    /\ buf' = <<>>
    /\ UNCHANGED <<second, build, mode, current, yielded, snap>>

\* peek takes &self: it may be called while a borrowing iterator is live
Peek ==
    /\ ~panicked /\ mode \in {"owned", "borrowed"}
    /\ LET r == peek(Self)
       IN  /\ SetSelf(r.self)
           /\ panicked' = r.panic
           /\ Called("peek", NoArg, Returned(r))
    /\ buf' = <<>>
    /\ UNCHANGED <<fifo, second, build, mode, current, yielded, snap, phase, ins, outs>>

PopMany ==
    /\ ~panicked /\ mode = "owned"
    /\ \E dst \in Dests :
        LET r == pop_many(Self, dst)
        IN  /\ SetSelf(r.self)
            /\ panicked' = r.panic
            /\ Called("pop_many", dst, Returned(r))
            /\ fifo' = FifoPopMany(fifo, Len(dst))
            /\ buf' = r.buf
            /\ SetRun(RunOff)
    /\ UNCHANGED <<second, build, mode, current, yielded, snap>>

ReadBytes ==
    /\ ~panicked /\ mode = "owned"
    /\ \E dst \in Dests :
        LET r == read(Self, dst)
        IN  /\ SetSelf(r.self)
            /\ panicked' = r.panic
            /\ Called("read", dst, Returned(r))
            /\ fifo' = FifoPopMany(fifo, Len(dst))
            /\ buf' = r.buf
            /\ SetRun(RunOff)
    /\ UNCHANGED <<second, build, mode, current, yielded, snap>>

\* let it = buffer.into_iter(): the buffer moves into the iterator
IntoIter ==
    /\ ~panicked /\ mode = "owned"
    /\ mode' = "consumed"
    /\ Called("into_iter", NoArg, Unit)
    /\ buf' = <<>> /\ yielded' = <<>> /\ snap' = Self
    /\ SetRun(RunOff)
    /\ UNCHANGED <<fifo, second, build, data, oldest, num_elems, current, panicked>>

\* it.next() on the consuming iterator
ConsumingNext ==
    /\ ~panicked /\ mode = "consumed"
    /\ LET r == consuming_next(Self)
       IN  /\ SetSelf(r.self)
           /\ panicked' = r.panic
           /\ Called("consuming_next", NoArg, Returned(r))
           /\ fifo' = FifoPop(fifo)
           /\ yielded' = IF Returned(r).tag = "Some"
                         THEN Append(yielded, r.ret.val)
                         ELSE yielded
    /\ buf' = <<>>
    /\ UNCHANGED <<second, build, mode, current, snap, phase, ins, outs>>

\* let it = (&buffer).into_iter(): the iterator borrows the buffer
IntoIterRef ==
    /\ ~panicked /\ mode = "owned"
    /\ mode' = "borrowed"
    /\ current' = into_iter_ref(Self)
    /\ Called("into_iter_ref", NoArg, Unit)
    /\ buf' = <<>> /\ yielded' = <<>> /\ snap' = Self
    /\ UNCHANGED <<fifo, second, build, data, oldest, num_elems, panicked,
                   phase, ins, outs>>

\* let it = buffer.iter()
Iter ==
    /\ ~panicked /\ mode = "owned"
    /\ mode' = "borrowed"
    /\ current' = iter(Self)
    /\ Called("iter", NoArg, Unit)
    /\ buf' = <<>> /\ yielded' = <<>> /\ snap' = Self
    /\ UNCHANGED <<fifo, second, build, data, oldest, num_elems, panicked,
                   phase, ins, outs>>

\* it.next() on the borrowing iterator, which reads the buffer it borrows
IterNext ==
    /\ ~panicked /\ mode \in {"borrowed", "shared"}
    /\ LET r == iter_next(Self, current)
       IN  /\ current' = r.current
           /\ panicked' = r.panic
           /\ Called("iter_next", NoArg, Returned(r))
           /\ yielded' = IF Returned(r).tag = "Some"
                         THEN Append(yielded, r.ret.val)
                         ELSE yielded
    /\ buf' = <<>>
    /\ UNCHANGED <<fifo, second, build, data, oldest, num_elems, mode, snap,
                   phase, ins, outs>>

\* let iter = IntoIterator::into_iter(&buffer); let iter2 = buffer.iter();
\* a second iterator over the buffer the first one has just borrowed
IterSecond ==
    /\ ~panicked /\ mode = "borrowed" /\ op = "into_iter_ref"
    /\ mode' = "shared"
    /\ current2' = iter(Self)
    /\ yielded2' = <<>>
    /\ Called("iter", NoArg, Unit)
    /\ buf' = <<>>
    /\ UNCHANGED <<fifo, build, data, oldest, num_elems, current, panicked,
                   yielded, snap, phase, ins, outs>>

\* iter2.next()
IterNextSecond ==
    /\ ~panicked /\ mode = "shared"
    /\ LET r == iter_next(Self, current2)
       IN  /\ current2' = r.current
           /\ panicked' = r.panic
           /\ Called("iter2_next", NoArg, Returned(r))
           /\ yielded2' = IF Returned(r).tag = "Some"
                          THEN Append(yielded2, r.ret.val)
                          ELSE yielded2
    /\ buf' = <<>>
    /\ UNCHANGED <<fifo, build, data, oldest, num_elems, mode, current,
                   yielded, snap, phase, ins, outs>>

\* the borrowing iterators go out of scope: the borrow ends
IterDrop ==
    /\ ~panicked /\ mode \in {"borrowed", "shared"}
    /\ mode' = "owned"
    /\ current' = 0
    /\ current2' = 0 /\ yielded2' = <<>>
    /\ Called("drop", NoArg, Unit)
    /\ buf' = <<>> /\ yielded' = <<>> /\ snap' = NoSnap
    /\ UNCHANGED <<fifo, build, data, oldest, num_elems, panicked, phase, ins, outs>>

Next ==
    \/ New
    \/ PushOverwrite
    \/ PushUnlessFull
    \/ Pop
    \/ Peek
    \/ PopMany
    \/ ReadBytes
    \/ IntoIter
    \/ ConsumingNext
    \/ IntoIterRef
    \/ Iter
    \/ IterNext
    \/ IterDrop

Spec == Init /\ [][Next]_vars

\* Every instantiation the source compiles: SIZE is any usize, 0 included
\* (neither the struct nor new() constrains it).
InitAnySize ==
    /\ T \in {Elems, Zst}
    /\ SIZE \in 0..(IF T = Zst THEN UsizeMax ELSE MaxSize)
    /\ overflow_checks \in BOOLEAN
    /\ data = new(SIZE).data
    /\ oldest = new(SIZE).oldest
    /\ num_elems = new(SIZE).num_elems
    /\ mode = "owned"
    /\ current = 0
    /\ op = "new" /\ arg = NoArg /\ ret = Unit
    /\ buf = <<>>
    /\ panicked = FALSE
    /\ yielded = <<>> /\ snap = NoSnap
    /\ phase = "fill" /\ ins = <<>> /\ outs = <<>>
    /\ fifo = <<>>
    /\ current2 = 0 /\ yielded2 = <<>>

SpecAnySize == InitAnySize /\ [][Next]_vars

\* Two borrowing iterators over one buffer at a time, as in the test
\* iter_convenience: the buffer is filled and drained by push_overwrite and
\* pop, borrowed by into_iter on &buffer and then once more by iter(), and
\* the two iterators are stepped in any order.
NextPair ==
    \/ PushOverwrite
    \/ Pop
    \/ IntoIterRef
    \/ IterSecond
    \/ IterNext
    \/ IterNextSecond
    \/ IterDrop

SpecPair == Init /\ [][NextPair]_vars

\* ------------------------------------------------------------ properties
\* The logical window of a buffer, oldest first (spec section 3):
\* the slots (oldest + i) mod SIZE for 0 <= i < count.
Window(self) ==
    [i \in 1..self.num_elems |-> self.data[(self.oldest + i - 1) % SIZE]]

\* k successive pop() calls: the buffer afterwards and the values returned.
RECURSIVE PopTimes(_, _)
PopTimes(self, k) ==
    IF k <= 0
    THEN [self |-> self, rets |-> <<>>]
    ELSE LET r == pop(self)
             rest == PopTimes(r.self, k - 1)
         IN  [self |-> rest.self, rets |-> <<r.ret>> \o rest.rets]

\* What a borrowing traversal of self yields before its first None or its
\* panic (cut after fuel elements).
RECURSIVE BorrowFrom(_, _, _)
BorrowFrom(self, cur, fuel) ==
    LET r == iter_next(self, cur)
    IN  IF fuel = 0 \/ r.panic \/ r.ret = None
        THEN <<>>
        ELSE <<r.ret.val>> \o BorrowFrom(self, r.current, fuel - 1)

BorrowSeq(self) == BorrowFrom(self, into_iter_ref(self), SIZE + 1)

\* the element type has a non-zero size
Sized == T # Zst

Prefix(s, n) == SubSeq(s, 1, Min(n, Len(s)))

\* C1: after any sequence of operations 0 <= len() <= SIZE, is_full() is
\* true exactly when len() = SIZE and is_empty() exactly when len() = 0.
C1_CapacityInvariant ==
    /\ 0 <= len(Self)
    /\ len(Self) <= SIZE
    /\ is_full(Self) <=> (num_elems = SIZE)
    /\ is_empty(Self) <=> (num_elems = 0)
    /\ len(Self) = num_elems

\* a full buffer of the largest size, just after an overwriting push that
\* wrapped the head around
C1_Witness ==
    /\ SIZE = MaxSize /\ num_elems = SIZE /\ is_full(Self) /\ ~is_empty(Self)
    /\ op = "push_overwrite" /\ ret.tag = "Some" /\ oldest = 0

\* C2: from an empty buffer (at any oldest), N <= SIZE accepted insertions
\* followed by N pops return the inserted values in insertion order, and the
\* buffer is empty afterwards.  ins and outs are the values inserted and
\* popped in such a run.
C2_RunInv ==
    phase \in {"fill", "drain"} =>
        /\ Len(ins) <= SIZE
        /\ Len(outs) <= Len(ins)
        /\ outs = Prefix(ins, Len(outs))
        /\ num_elems = Len(ins) - Len(outs)

C2_Step ==
    /\ C2_RunInv'
    /\ (op' = "pop" /\ phase \in {"fill", "drain"} /\ Len(outs) < Len(ins)) =>
           /\ ret' = Some(ins[Len(outs) + 1])
           /\ phase' = "drain"
           /\ outs' = Append(outs, ins[Len(outs) + 1])

C2_FifoOrder == C2_RunInv /\ [][C2_Step]_vars

\* SIZE insertions, the first two of different values, into an empty buffer
\* whose oldest was not 0, all popped again
C2_Witness ==
    /\ SIZE = MaxSize /\ SIZE >= 2
    /\ phase = "drain" /\ Len(ins) = SIZE /\ outs = ins
    /\ ins[1] # ins[2]
    /\ op = "pop" /\ num_elems = 0 /\ oldest # 0

\* C3: push_overwrite(x) on a full buffer [e1, .., eC] returns Some(e1),
\* leaves len() at SIZE and makes the content [e2, .., eC, x]; on a buffer
\* that is not full it returns None and appends x.
C3_Step ==
    op' = "push_overwrite" =>
        IF num_elems = SIZE
        THEN /\ ret' = Some(Window(Self)[1])
             /\ num_elems' = SIZE
             /\ Window(Self') = Append(Tail(Window(Self)), arg')
        ELSE /\ ret' = None
             /\ num_elems' = num_elems + 1
             /\ Window(Self') = Append(Window(Self), arg')

C3_OverwriteSemantics == [][C3_Step]_vars

\* the same for element types of non-zero size
C3_Sized == [][Sized => C3_Step]_vars

\* an overwriting push into a full buffer of the largest size whose window
\* wraps, evicting a value other than the one pushed
C3_Witness ==
    /\ SIZE = MaxSize /\ num_elems = SIZE
    /\ op = "push_overwrite" /\ ret.tag = "Some" /\ ret.val # arg
    /\ oldest = 2
    /\ Window(Self)[SIZE] = arg

\* C4: push_unless_full(x) on a full buffer returns BufferFull and leaves
\* every slot, oldest and count as they were, however often it is repeated.
C4_Step ==
    (op' = "push_unless_full" /\ num_elems = SIZE) =>
        /\ ret' = Err("BufferFull")
        /\ data' = data /\ oldest' = oldest /\ num_elems' = num_elems

C4_RejectSemantics == [][C4_Step]_vars

\* a rejected push of a value that differs from the slot it would have hit
C4_Witness ==
    /\ SIZE = MaxSize /\ num_elems = SIZE /\ oldest # 0
    /\ op = "push_unless_full" /\ ret = Err("BufferFull")
    /\ data[oldest] # arg

\* C5: on an empty buffer, at any oldest, pop() and peek() return None and
\* leave data, oldest and count unchanged.
C5_Step ==
    (op' \in {"pop", "peek"} /\ num_elems = 0) =>
        /\ ret' = None
        /\ data' = data /\ oldest' = oldest /\ num_elems' = num_elems

C5_EmptyRemoval == [][C5_Step]_vars

\* a pop of a buffer that was filled and drained, so that oldest is not 0
\* and the slot at oldest holds a stale value
C5_Witness ==
    /\ op = "pop" /\ ret = None /\ num_elems = 0
    /\ oldest # 0 /\ data[oldest] # Default

\* C6: pop_many into a destination of length L returns k = min(len(), L);
\* slots 1..k of the destination hold what k successive pops return, in
\* order; slots k+1..L keep their contents; the buffer is as after k pops.
C6_Step ==
    op' = "pop_many" =>
        LET k == Min(num_elems, Len(arg'))
            pops == PopTimes(Self, k)
        IN  /\ ret' = Usize(k)
            /\ Len(buf') = Len(arg')
            /\ \A i \in 1..k : Some(buf'[i]) = pops.rets[i]
            /\ \A i \in 1..k : buf'[i] = Window(Self)[i]
            /\ \A i \in (k + 1)..Len(arg') : buf'[i] = arg'[i]
            /\ Self' = pops.self
            /\ data' = data
            /\ oldest' = (oldest + k) % SIZE
            /\ num_elems' = num_elems - k

C6_BulkDrainEquivalence == [][C6_Step]_vars

\* two different elements drained across the end of the array into a
\* destination shorter than the buffer's content
C6_Witness ==
    /\ SIZE = 3 /\ op = "pop_many" /\ ret = Usize(2) /\ Len(arg) = 2
    /\ num_elems = 1 /\ oldest = 1
    /\ buf[1] # buf[2] /\ buf # arg

\* C7: a borrowing traversal yields exactly len() elements, the slots
\* (oldest + i) mod SIZE for i = 0..len()-1 in that order, then None on
\* every later call, and never changes data, oldest or count.
C7_Step ==
    /\ op' \in {"into_iter_ref", "iter"} =>
           /\ yielded' = <<>>
           /\ data' = data /\ oldest' = oldest /\ num_elems' = num_elems
    /\ op' = "iter_next" =>
           /\ data' = data /\ oldest' = oldest /\ num_elems' = num_elems
           /\ IF Len(yielded) < num_elems
              THEN /\ ret' = Some(data[(oldest + Len(yielded)) % SIZE])
                   /\ yielded' = Append(yielded, ret'.val)
              ELSE /\ ret' = None
                   /\ yielded' = yielded
    /\ mode' = "borrowed" => yielded' = Prefix(Window(Self'), Len(yielded'))

C7_BorrowingTraversal == [][C7_Step]_vars

\* an exhausted traversal of a full buffer whose window wraps
C7_Witness ==
    /\ SIZE = MaxSize /\ mode = "borrowed" /\ op = "iter_next" /\ ret = None
    /\ num_elems = SIZE /\ oldest = SIZE - 1
    /\ yielded = Window(Self) /\ yielded[1] # yielded[2]

\* C8: from a state with len() = n the consuming iterator yields exactly n
\* elements, those a borrowing traversal of that state yields, in order;
\* then the buffer it owns is empty and next() returns None ever after.
\* snap is the buffer at into_iter and yielded what next() has returned
\* since (one element more for each Some, none for a None), so a Some from
\* an exhausted iterator would make yielded longer than snap's content.
C8_ConsumingTraversal ==
    mode = "consumed" =>
        /\ Len(BorrowSeq(snap)) = snap.num_elems
        /\ Len(yielded) + num_elems = snap.num_elems
        /\ yielded = Prefix(BorrowSeq(snap), Len(yielded))
        /\ yielded \o Window(Self) = BorrowSeq(snap)
        /\ op = "into_iter" => (yielded = <<>> /\ snap = Self)
        /\ (op = "consuming_next" /\ ret = None) =>
               (num_elems = 0 /\ yielded = BorrowSeq(snap))
        /\ (op = "consuming_next" /\ ret # None) =>
               /\ ret.tag = "Some"
               /\ yielded # <<>>
               /\ yielded[Len(yielded)] = ret.val

\* a consuming traversal of a full, wrapped buffer, exhausted
C8_Witness ==
    /\ SIZE = MaxSize /\ mode = "consumed" /\ op = "consuming_next" /\ ret = None
    /\ num_elems = 0 /\ Len(yielded) = SIZE /\ snap.oldest # 0
    /\ yielded = BorrowSeq(snap) /\ yielded[1] # yielded[2]

\* C9: read(dest) never returns an error, returns the count pop_many(dest)
\* returns, leaves the destination and the buffer as pop_many(dest) does,
\* and returns 0 when the buffer is empty.
C9_Step ==
    op' = "read" =>
        LET r == pop_many(Self, arg')
        IN  /\ ret'.tag = "Ok"
            /\ ret' = Ok(r.ret.val)
            /\ ret' = Ok(Min(num_elems, Len(arg')))
            /\ buf' = r.buf
            /\ Self' = r.self
            /\ num_elems = 0 => ret' = Ok(0)

C9_ReadIsPopMany == [][C9_Step]_vars

\* a read from an empty buffer into a destination with room
C9_Witness ==
    /\ op = "read" /\ ret = Ok(0) /\ Len(arg) = MaxBuf /\ buf = arg
    /\ num_elems = 0 /\ oldest # 0

\* C10: no call panics: oldest stays in [0, SIZE), every array index is in
\* [0, SIZE), pop_many never unwraps None, count never goes below 0, and
\* push_overwrite always completes with the new element as the newest.
C10_Inv ==
    /\ ~panicked
    /\ oldest \in 0..(SIZE - 1)
    /\ num_elems >= 0
    /\ DOMAIN data = 0..(SIZE - 1)

C10_Step ==
    /\ C10_Inv'
    /\ op' = "push_overwrite" =>
           /\ num_elems' >= 1
           /\ data'[(oldest' + num_elems' - 1) % SIZE] = arg'

C10_NeverPanics == C10_Inv /\ [][C10_Step]_vars

\* the same for element types of non-zero size
C10_Sized == (Sized => C10_Inv) /\ [][Sized => C10_Step]_vars

\* a bulk drain out of a full buffer of the largest size that took the head
\* up to the end of the array and around to slot 0
C10_Witness ==
    /\ ~panicked /\ SIZE = MaxSize
    /\ op = "pop_many" /\ ret = Usize(MaxBuf) /\ oldest = 0 /\ num_elems = SIZE - MaxBuf

\* C11: push_unless_full returns BufferFull exactly when count = SIZE just
\* before the call and Ok otherwise; every other operation returns its plain
\* value (an Option, a count, Ok(count)) and never a failure.
C11_Step ==
    /\ op' = "push_unless_full" =>
           /\ ret' = Err("BufferFull") <=> num_elems = SIZE
           /\ num_elems # SIZE => ret' = OkUnit
    /\ op' \in {"push_overwrite", "pop", "peek", "consuming_next", "iter_next"} =>
           ret'.tag \in {"None", "Some"}
    /\ op' = "pop_many" => ret'.tag = "usize"
    /\ op' = "read" => ret'.tag = "Ok"

C11_BufferFullOnly == [][C11_Step]_vars

\* the same for element types of non-zero size
C11_Sized == [][Sized => C11_Step]_vars

\* the iterator at cursor cur over self has nothing left
Exhausted(self, cur) == ~iter_next(self, cur).panic /\ iter_next(self, cur).ret = None

\* C12: two borrowing traversals of the same unmodified buffer, the first
\* made by into_iter on &buffer and the second by iter(), yield pairwise
\* equal elements, and when both are exhausted they have yielded sequences
\* of the same length (the buffer's count).
C12_TraversalsAgree ==
    mode = "shared" =>
        /\ \A i \in 1..Min(Len(yielded), Len(yielded2)) : yielded[i] = yielded2[i]
        /\ Len(yielded) = current /\ Len(yielded2) = current2
        /\ (Exhausted(Self, current) /\ Exhausted(Self, current2)) =>
               /\ Len(yielded) = Len(yielded2)
               /\ Len(yielded) = num_elems
               /\ yielded = yielded2

\* both traversals of a full, wrapped buffer of the largest size have
\* returned None, after yielding at least two different values
C12_Witness ==
    /\ mode = "shared" /\ SIZE = MaxSize /\ num_elems = SIZE /\ oldest # 0
    /\ Exhausted(Self, current) /\ Exhausted(Self, current2)
    /\ op = "iter2_next" /\ ret = None
    /\ yielded = yielded2 /\ yielded[1] # yielded[2]

\* C13: new() (and Default::default()) gives count = 0, oldest = 0 and
\* every one of the SIZE slots holding T::default(); the buffer reports
\* is_empty() and, for SIZE >= 1, not is_full(); construction cannot fail.
C13_Construction ==
    op = "new" =>
        /\ num_elems = 0 /\ oldest = 0
        /\ DOMAIN data = 0..(SIZE - 1)
        /\ \A i \in 0..(SIZE - 1) : data[i] = Default
        /\ Self = new(SIZE)
        /\ is_empty(Self)
        /\ SIZE >= 1 => ~is_full(Self)
        /\ len(Self) = 0
        /\ ret = Unit /\ ~panicked
        /\ mode = "owned"

\* a buffer of the largest size constructed anew just after a bulk drain of
\* the previous one had filled a destination slice with values other than
\* the default
C13_Witness ==
    /\ op = "new" /\ SIZE = MaxSize /\ T = Elems
    /\ Len(buf) = MaxBuf /\ \A i \in 1..Len(buf) : buf[i] # Default
    /\ is_empty(Self) /\ ~is_full(Self)

\* the class of a buffer that holds n elements
Class(n) ==
    IF n = 0 THEN "empty" ELSE IF n = SIZE THEN "full" ELSE "partial"

\* the calls that insert or remove
Mutators == {"push_overwrite", "push_unless_full", "pop", "pop_many"}

\* C14 (as stated): a buffer is in exactly one of the classes empty,
\* partially filled, full, and a single push_overwrite, push_unless_full,
\* pop or pop_many either leaves the class as it is or takes it from empty
\* to partial, from partial to full or from full to partial: never from
\* partial or full to empty, and never from empty to full.
C14_ListedStep ==
    op' \in Mutators =>
        \/ Class(num_elems') = Class(num_elems)
        \/ <<Class(num_elems), Class(num_elems')>> \in
               {<<"empty", "partial">>, <<"partial", "full">>, <<"full", "partial">>}

C14_ListedTransitions == [][C14_ListedStep]_vars

\* C14 (amended): a buffer is in exactly one of the three classes; a push
\* never lowers the class and raises the count by at most one, so it goes
\* from empty to full only when SIZE = 1; a pop never raises the class and
\* lowers the count by at most one, so it takes a partially filled buffer
\* with one element to empty, and a full one to empty only when SIZE = 1; a
\* pop_many never raises the class and may take a partially filled or a full
\* buffer to empty.
C14_ExactlyOne ==
    /\ num_elems \in 0..SIZE
    /\ (num_elems = 0) \/ (0 < num_elems /\ num_elems < SIZE) \/ (num_elems = SIZE)
    /\ ~(num_elems = 0 /\ 0 < num_elems /\ num_elems < SIZE)
    /\ ~(num_elems = 0 /\ num_elems = SIZE)
    /\ ~(0 < num_elems /\ num_elems < SIZE /\ num_elems = SIZE)

C14_Step ==
    /\ C14_ExactlyOne'
    /\ op' \in {"push_overwrite", "push_unless_full"} =>
           /\ num_elems' \in {num_elems, num_elems + 1}
           /\ <<Class(num_elems), Class(num_elems')>> \in
                  {<<"empty", "partial">>, <<"partial", "partial">>,
                   <<"partial", "full">>, <<"full", "full">>}
                  \cup (IF SIZE = 1 THEN {<<"empty", "full">>} ELSE {})
    /\ op' = "pop" =>
           /\ num_elems' \in {num_elems, num_elems - 1}
           /\ <<Class(num_elems), Class(num_elems')>> \in
                  {<<"empty", "empty">>, <<"partial", "partial">>,
                   <<"partial", "empty">>, <<"full", "partial">>}
                  \cup (IF SIZE = 1 THEN {<<"full", "empty">>} ELSE {})
    /\ op' = "pop_many" =>
           /\ num_elems' = num_elems - Min(num_elems, Len(arg'))
           /\ <<Class(num_elems), Class(num_elems')>> \in
                  {<<"empty", "empty">>, <<"partial", "partial">>,
                   <<"partial", "empty">>, <<"full", "full">>,
                   <<"full", "partial">>, <<"full", "empty">>}

C14_Transitions == C14_ExactlyOne /\ [][C14_Step]_vars

\* a pop that took the last element out of a buffer of the largest size:
\* from partially filled to empty
C14_Witness ==
    /\ SIZE = MaxSize /\ SIZE > 1
    /\ op = "pop" /\ ret.tag = "Some" /\ num_elems = 0 /\ Class(num_elems) = "empty"

\* C15: on a buffer that is not full push_overwrite(x) and
\* push_unless_full(x) write x to the same slot (oldest + count) mod SIZE
\* and leave the same buffer: that slot set to x, oldest as it was, count
\* one more; push_overwrite returns None and push_unless_full returns Ok.
C15_Step ==
    (op' \in {"push_overwrite", "push_unless_full"} /\ num_elems < SIZE) =>
        /\ ret' = IF op' = "push_overwrite" THEN None ELSE OkUnit
        /\ push_overwrite(Self, arg').ret = None
        /\ push_unless_full(Self, arg').ret = OkUnit
        /\ ~push_overwrite(Self, arg').panic
        /\ ~push_unless_full(Self, arg').panic
        /\ Self' = push_overwrite(Self, arg').self
        /\ Self' = push_unless_full(Self, arg').self
        /\ data' = [data EXCEPT ![(oldest + num_elems) % SIZE] = arg']
        /\ oldest' = oldest
        /\ num_elems' = num_elems + 1

C15_PolicyAgreement == [][C15_Step]_vars

\* the same for element types of non-zero size
C15_Sized == [][Sized => C15_Step]_vars

\* C16: on a non-empty buffer peek() returns the element an immediately
\* following pop() returns and leaves data, oldest and count unchanged, so
\* consecutive peek() calls return the same element.
C16_Step ==
    /\ (op' = "peek" /\ num_elems > 0) =>
           /\ ret'.tag = "Some"
           /\ ret' = Some(data[oldest])
           /\ ret' = pop(Self).ret
           /\ data' = data /\ oldest' = oldest /\ num_elems' = num_elems
           /\ ret' = pop(Self').ret
           /\ ret' = peek(Self').ret
    /\ (op = "peek" /\ op' = "pop") => ret' = ret
    /\ (op = "peek" /\ op' = "peek") => ret' = ret

C16_PeekIsNextPop == [][C16_Step]_vars

\* a peek at a wrapped buffer whose oldest element differs from its newest
C16_Witness ==
    /\ op = "peek" /\ ret.tag = "Some" /\ SIZE = MaxSize
    /\ oldest # 0 /\ num_elems >= 2
    /\ ret.val = Window(Self)[1]
    /\ ret.val # Window(Self)[num_elems]

\* C17: the logical window always equals the abstract bounded FIFO stepped
\* beside the buffer (fifo), and pop, peek, push_overwrite and pop_many
\* return what the abstract FIFO gives: its head (or None when it is
\* empty), the head an overwriting push drops (or None when there is room),
\* and its first min(count, L) elements in order.
C17_Inv ==
    /\ Len(fifo) = num_elems
    /\ Window(Self) = fifo

C17_Step ==
    /\ C17_Inv'
    /\ op' \in {"pop", "peek", "consuming_next"} =>
           ret' = IF fifo = <<>> THEN None ELSE Some(Head(fifo))
    /\ op' = "push_overwrite" =>
           ret' = IF Len(fifo) < SIZE THEN None ELSE Some(Head(fifo))
    /\ op' = "push_unless_full" =>
           ret' = IF Len(fifo) < SIZE THEN OkUnit ELSE Err("BufferFull")
    /\ op' = "pop_many" =>
           LET k == Min(Len(fifo), Len(arg'))
           IN  /\ ret' = Usize(k)
               /\ SubSeq(buf', 1, k) = SubSeq(fifo, 1, k)

C17_RefinesFifo == C17_Inv /\ [][C17_Step]_vars

\* the same for element types of non-zero size
C17_Sized == (Sized => C17_Inv) /\ [][Sized => C17_Step]_vars

\* C18: no execution constructs a buffer with SIZE = 0 and then reaches a
\* call that takes a remainder modulo SIZE on it.  With SIZE = 0 the
\* is_full / is_empty / cursor checks return before push_unless_full, pop,
\* peek and the iterators reach their remainder; push_overwrite takes its
\* remainder first (line 43), and a remainder by zero panics.
C18_ZeroExcluded ==
    SIZE = 0 => (op # "push_overwrite" /\ ~panicked)

C19_Step ==
    /\ mode' = "borrowed" =>
           /\ Self' = snap'
           /\ current' = Len(yielded')
           /\ yielded' = Prefix(Window(snap'), current')
    /\ (mode = "borrowed" /\ op' = "iter_next") =>
           /\ ret' = iter_next(Self, current).ret
           /\ ret' = iter_next(snap, current).ret
           /\ IF current < num_elems
              THEN /\ ret' = Some(data[(oldest + current) % SIZE])
                   /\ ret' = Some(Window(snap)[current + 1])
                   /\ current' = current + 1
              ELSE /\ ret' = None
                   /\ current' = current
                   /\ yielded = Window(snap)

WindowSlots(self) == {(self.oldest + i) % SIZE : i \in 0..(self.num_elems - 1)}

\* the slots whose contents a step changed
Changed == {i \in DOMAIN data : data'[i] # data[i]}

\* C20: a successful insertion writes one slot and no live element: into
\* a buffer that is not full it writes x to slot (oldest + count) mod SIZE,
\* which lies outside the window, and every other slot keeps its contents;
\* push_overwrite on a full buffer writes x to the slot of the element it
\* evicts and returns, and no other.  pop, peek, pop_many, read, the
\* iterators and a rejected push_unless_full change no slot, so a vacated
\* slot keeps its stale value.
C20_Step ==
    /\ DOMAIN data' = DOMAIN data
    /\ (op' \in {"push_overwrite", "push_unless_full"} /\ ret' \in {None, OkUnit}) =>
           LET slot == (oldest + num_elems) % SIZE
           IN  /\ num_elems < SIZE
               /\ slot \notin WindowSlots(Self)
               /\ data'[slot] = arg'
               /\ Changed \subseteq {slot}
               /\ \A i \in WindowSlots(Self) : data'[i] = data[i]
    /\ (op' = "push_overwrite" /\ ret'.tag = "Some") =>
           /\ num_elems = SIZE
           /\ ret' = Some(data[oldest])
           /\ data'[oldest] = arg'
           /\ Changed \subseteq {oldest}
           /\ \A i \in WindowSlots(Self) \ {oldest} : data'[i] = data[i]
    /\ (op' = "push_unless_full" /\ ret' = Err("BufferFull")) => data' = data
    /\ op' \in {"pop", "peek", "pop_many", "read", "consuming_next", "iter_next"} =>
           data' = data
    /\ (op' = "pop" /\ ret'.tag = "Some") =>
           /\ data'[oldest] = ret'.val
           /\ num_elems' < SIZE => oldest \notin WindowSlots(Self')

C20_OneSlotWritten == [][C20_Step]_vars

\* an overwriting push into a full buffer of the largest size that evicted
\* a value other than the one pushed and left every other slot, none of
\* which holds the pushed value, as it was
C20_Witness ==
    /\ SIZE = MaxSize /\ num_elems = SIZE /\ oldest # 0
    /\ op = "push_overwrite" /\ ret.tag = "Some" /\ ret.val # arg
    /\ LET slot == (oldest + SIZE - 1) % SIZE
       IN  /\ data[slot] = arg
           /\ \A i \in DOMAIN data \ {slot} : data[i] # arg

====
